---- MODULE Spec2Model ----
(***************************************************************************)
(* Monte Carlo Tree Search engine of pyMCTS (src/mcts.py): the node        *)
(* statistics, one search cycle, the iteration- and time-bounded search    *)
(* loop, best-child selection and re-rooting.                              *)
(*                                                                         *)
(* A node is identified by its path of child indices from the first root.  *)
(* The domain callbacks expand() and simulate() are abstract: expand()     *)
(* returns any number 0..MaxBranch of new nodes (none after MaxDepth       *)
(* plies); the domain constructor may flag the first root terminal, and    *)
(* flags the positions of the last ply terminal or leaves that to          *)
(* expand(); simulate() returns any reward in Rewards.  Rewards and scores *)
(* are integers; log(N) is a fixed-point table in units of 1/LnScale.      *)
(*                                                                         *)
(* Specifications: Spec (any sequence of API calls), ScenarioSpec (search, *)
(* move_to, search), PlaySpec (a whole game session of two engine players, *)
(* with fairness), SelectSpec (select(N) on its own over bounded child     *)
(* statistics) and TicTacToeSpec (the tic-tac-toe domain of src/game.py:   *)
(* every legal position, and simulate() with every random choice).         *)
(***************************************************************************)
EXTENDS Integers, Sequences, FiniteSets, TLC

\* ---- bounds of the model ----
MaxBranch == 2      \* most successors expand() returns
MaxDepth == 2       \* plies after which every position has no successor
MaxIter == 3        \* largest iterations argument
MaxCycles == 3      \* search cycles in one behaviour of Spec
ScenarioIter == 2   \* largest iterations argument in ScenarioSpec
SelectBranch == 3   \* most children of the node select is applied to
SelectVisit == 2    \* largest visit of such a child

\* ---- program constants ----
CHECK_ITERATIONS == 100
LnScale == 1000000

\* simulate() results, designed to lie in [-1, 1]: the two extremes
Rewards == {-1, 1}

\* ---- Python's None and optional values ----
None == {}
Some(x) == {x}
Val(o) == CHOOSE x \in o : TRUE
Optional(S) == {None} \cup {Some(x) : x \in S}
\* truth value of an optional number: None and 0 are both false
Truthy(o) == o # None /\ Val(o) # 0

VARIABLES
  root,          \* MonteCarloTree.root
  nodes,         \* heap: node id -> fields of the MonteCarloTreeNode
  minmax_of,     \* the domain's minmax_search argument, by ply parity
  flag_last,     \* the domain constructor flags last-ply positions terminal
  pc,            \* "idle" between API calls, "loop" inside search's loop
  iterations,    \* search argument (optional)
  time_limit,    \* search argument (optional)
  iters,         \* cycles run so far by the search in progress
  elapsed,       \* time() - start_time of a time-limited search
  ret,           \* node returned by the last search (optional)
  err,           \* exception raised by the last call, or "none"
  last_op,       \* "search" or "move_to": the call ret and err belong to
  bp_calls,      \* history: node id -> number of backpropagate invocations
  at_call,       \* history: the root's visit, freshness and is_terminal
                 \* when the last search was called
  stage,         \* <<k, n>>: k calls made so far by the scenario or game
                 \* session search(iterations=n), move_to(returned child),
                 \* search(iterations=n), ...
  cycles,        \* history: search cycles run so far
  expand_calls,  \* history: node id -> number of expand_node invocations
  current_node,  \* TicTacToeGame.current_node: the tic-tac-toe node in play
  playout,       \* the frame of TicTacToeNode.simulate() on current_node
  select_call    \* a call root.select(N) on its own: [N, ret]

vars == <<root, nodes, minmax_of, flag_last, current_node, playout, select_call,
                 expand_calls, pc, iterations, time_limit, iters,
          elapsed, ret, err, last_op, bp_calls, at_call, stage,
          cycles, expand_calls, current_node, playout, select_call>>

\* ---- exceptions ----
ERR_NEITHER == "ValueError: Either iterations or time_limit must be specified."
ERR_BOTH == "ValueError: Only one of iterations or time_limit can be specified."
ERR_TIME == "ValueError: Time limit must be greater than zero."
ERR_ITER == "ValueError: Number of iterations must be greater than zero."
ERR_NO_CHILDREN == "ValueError: No children found in the root node."
ERR_TYPE == "TypeError: node must be an instance of MonteCarloTreeNode."
ArgumentErrors == {ERR_NEITHER, ERR_BOTH, ERR_TIME, ERR_ITER}

\* ---- MonteCarloTreeNode ----
NewNode(terminal, minmax) ==
  [visit |-> 0, score |-> 0, children |-> <<>>, is_terminal |-> terminal,
   parent |-> None, minmax_search |-> minmax]

Range(s) == {s[i] : i \in 1..Len(s)}
Abs(x) == IF x < 0 THEN -x ELSE x

\* the sum of the visits of the nodes cs[i..]
RECURSIVE SumVisits(_, _, _)
SumVisits(h, cs, i) ==
  IF i > Len(cs) THEN 0 ELSE h[cs[i]].visit + SumVisits(h, cs, i + 1)

\* how many nodes expand() may return at node n
ExpandChoices(n) == IF Len(n) >= MaxDepth THEN {0} ELSE 0..MaxBranch

\* expand_node: children = expand(); no child: is_terminal; else set parents
\* (k new nodes, constructed with the domain's flags mm and fl)
ExpandNode(h, n, k, mm, fl) ==
  LET ids == [i \in 1..k |-> Append(n, i)]
      h1 == [m \in DOMAIN h \cup Range(ids) |->
               IF m \in Range(ids)
               THEN NewNode(fl /\ Len(m) = MaxDepth, mm[Len(m) % 2])
               ELSE h[m]]
      h2 == [h1 EXCEPT ![n].children = ids]
  IN IF Len(ids) = 0
     THEN [h2 EXCEPT ![n].is_terminal = TRUE]
     ELSE [m \in DOMAIN h2 |->
             IF m \in Range(ids) THEN [h2[m] EXCEPT !.parent = Some(n)]
             ELSE h2[m]]

\* variant of Backpropagate: the visit increment sits inside "if parent"
RECURSIVE BackpropagateRootUncounted(_, _, _)
BackpropagateRootUncounted(st, n, result) ==
  LET hs == [st.h EXCEPT ![n].score = @ + result]
      st1 == [h |-> IF hs[n].parent # None
                    THEN [hs EXCEPT ![n].visit = @ + 1] ELSE hs,
              c |-> [st.c EXCEPT ![n] = @ + 1]]
  IN IF st1.h[n].parent # None
     THEN BackpropagateRootUncounted(st1, Val(st1.h[n].parent),
            IF st1.h[n].minmax_search THEN -result ELSE result)
     ELSE st1

\* variant of Backpropagate: no recursion into the parent
BackpropagateNoRecursion(st, n, result) ==
  [h |-> [st.h EXCEPT ![n].visit = @ + 1, ![n].score = @ + result],
   c |-> [st.c EXCEPT ![n] = @ + 1]]

\* variant of Backpropagate: the reward is passed on without a sign flip
RECURSIVE BackpropagateNeverFlips(_, _, _)
BackpropagateNeverFlips(st, n, result) ==
  LET st1 == [h |-> [st.h EXCEPT ![n].visit = @ + 1, ![n].score = @ + result],
              c |-> [st.c EXCEPT ![n] = @ + 1]]
  IN IF st1.h[n].parent # None
     THEN BackpropagateNeverFlips(st1, Val(st1.h[n].parent), result)
     ELSE st1

\* backpropagate on state st = [h: heap, c: invocation counts]
RECURSIVE Backpropagate(_, _, _)
Backpropagate(st, n, result) ==
  LET st1 == [h |-> [st.h EXCEPT ![n].visit = @ + 1, ![n].score = @ + result],
              c |-> [st.c EXCEPT ![n] = @ + 1]]
  IN IF st1.h[n].parent # None
     THEN Backpropagate(st1, Val(st1.h[n].parent),
                        IF st1.h[n].minmax_search THEN -result ELSE result)
     ELSE st1

\* math.log(N) in units of 1/LnScale, N = 1..32
LnTable ==
  <<0, 693147, 1098612, 1386294, 1609438, 1791759, 1945910, 2079442,
    2197225, 2302585, 2397895, 2484907, 2564949, 2639057, 2708050, 2772589,
    2833213, 2890372, 2944439, 2995732, 3044522, 3091042, 3135494, 3178054,
    3218876, 3258097, 3295837, 3332205, 3367296, 3401197, 3433987, 3465736>>

\* ucb1 as a fraction num/den in units of 1/LnScale, or infinity
\* (exploration_weight = 1.0)
Ucb1(h, n, N) ==
  IF h[n].visit = 0 THEN [inf |-> TRUE, num |-> 0, den |-> 1]
  ELSE [inf |-> FALSE, num |-> h[n].score * LnScale + LnTable[N],
        den |-> h[n].visit]

\* a > b on ucb1 values
Greater(a, b) ==
  IF a.inf THEN ~b.inf
  ELSE IF b.inf THEN FALSE
  ELSE a.num * b.den > b.num * a.den

\* variant of SelectLoop: a later child with an equal ucb1 replaces the best
RECURSIVE SelectLoopLastWins(_, _, _, _, _, _)
SelectLoopLastWins(h, cs, i, best_child, best_ucb1, N) ==
  IF i > Len(cs) THEN best_child
  ELSE IF h[cs[i]].visit = 0 THEN cs[i]
  ELSE LET ucb1 == Ucb1(h, cs[i], N)
       IN IF ~Greater(best_ucb1, ucb1)
          THEN SelectLoopLastWins(h, cs, i + 1, cs[i], ucb1, N)
          ELSE SelectLoopLastWins(h, cs, i + 1, best_child, best_ucb1, N)

\* select: the loop over the children (best_child, best_ucb1 so far)
RECURSIVE SelectLoop(_, _, _, _, _, _)
SelectLoop(h, cs, i, best_child, best_ucb1, N) ==
  IF i > Len(cs) THEN best_child
  ELSE IF h[cs[i]].visit = 0 THEN cs[i]
  ELSE LET ucb1 == Ucb1(h, cs[i], N)
       IN IF Greater(ucb1, best_ucb1)
          THEN SelectLoop(h, cs, i + 1, cs[i], ucb1, N)
          ELSE SelectLoop(h, cs, i + 1, best_child, best_ucb1, N)

Select(h, n, N) ==
  IF Len(h[n].children) = 0 THEN n
  ELSE SelectLoop(h, h[n].children, 1, h[n].children[1],
                  Ucb1(h, h[n].children[1], N), N)

\* variant of ArgCheck: the "both given" check is missing
ArgCheckNoBoth(its, tl) ==
  IF its = None /\ tl = None THEN ERR_NEITHER
  ELSE IF Truthy(tl) /\ Val(tl) <= 0 THEN ERR_TIME
  ELSE IF Truthy(its) /\ Val(its) <= 0 THEN ERR_ITER
  ELSE "none"

\* ---- MonteCarloTree.search ----
\* the argument checks, in order; "none" when they pass
ArgCheck(its, tl) ==
  IF its = None /\ tl = None THEN ERR_NEITHER
  ELSE IF its # None /\ tl # None THEN ERR_BOTH
  ELSE IF Truthy(tl) /\ Val(tl) <= 0 THEN ERR_TIME
  ELSE IF Truthy(its) /\ Val(its) <= 0 THEN ERR_ITER
  ELSE "none"

\* search_iter: descent from the root by select
RECURSIVE Descend(_, _, _)
Descend(h, curr, N) ==
  IF Len(h[curr].children) > 0 THEN Descend(h, Select(h, curr, N), N)
  ELSE curr

\* variant of ShouldExpand: a terminal leaf is expanded too
ShouldExpandIgnoreTerminal(h, curr) == h[curr].visit # 0

\* variant of ShouldExpand: the leaf is expanded on its first visitation
ShouldExpandOnFirstVisit(h, curr) == ~h[curr].is_terminal

\* search_iter: the leaf is expanded on its second visitation
ShouldExpand(h, curr) == ~h[curr].is_terminal /\ h[curr].visit # 0

\* variant of AfterExpand: the expanded node itself is simulated
AfterExpandStay(h, curr) == curr

\* variant of AfterExpand: the last new child is simulated, not the first
AfterExpandLast(h, curr) ==
  IF ~h[curr].is_terminal THEN h[curr].children[Len(h[curr].children)] ELSE curr

\* search_iter: the node simulated after the expansion step
AfterExpand(h, curr) ==
  IF ~h[curr].is_terminal THEN h[curr].children[1] ELSE curr

\* variant of BestChildLoop: >= in place of >, the last child wins ties
RECURSIVE BestChildLoopLastWins(_, _, _, _)
BestChildLoopLastWins(h, cs, i, best_child) ==
  IF i > Len(cs) THEN best_child
  ELSE IF h[cs[i]].visit >= h[best_child].visit
       THEN BestChildLoopLastWins(h, cs, i + 1, cs[i])
       ELSE BestChildLoopLastWins(h, cs, i + 1, best_child)

\* best child by visit count, first wins ties
RECURSIVE BestChildLoop(_, _, _, _)
BestChildLoop(h, cs, i, best_child) ==
  IF i > Len(cs) THEN best_child
  ELSE IF h[cs[i]].visit > h[best_child].visit
       THEN BestChildLoop(h, cs, i + 1, cs[i])
       ELSE BestChildLoop(h, cs, i + 1, best_child)

BestChild(h, r) == BestChildLoop(h, h[r].children, 2, h[r].children[1])

\* variant of ContinueLoop: the counted loop stops one cycle early
ContinueLoopOneShort ==
  IF iterations # None THEN iters < Val(iterations) - 1
  ELSE iters % CHECK_ITERATIONS # 0 /\ elapsed < Val(time_limit)

\* the loop conditions of the two branches
ContinueLoop ==
  IF iterations # None THEN iters < Val(iterations)
  ELSE iters % CHECK_ITERATIONS # 0 /\ elapsed < Val(time_limit)

\* the nodes owned by the tree
RECURSIVE Subtree(_, _)
Subtree(h, n) ==
  {n} \cup UNION {Subtree(h, h[n].children[i]) : i \in 1..Len(h[n].children)}

Fresh(h, n) == h[n].visit = 0 /\ Len(h[n].children) = 0

\* select_call when select is not called on its own
NoSelect == [N |-> 0, ret |-> None]

\* at_call outside a search
NoCall == [visit |-> 0, fresh |-> TRUE, is_terminal |-> FALSE]

Init ==
  /\ root = <<>>
  /\ minmax_of \in [{0, 1} -> BOOLEAN]
  /\ flag_last \in BOOLEAN
  /\ \E t \in BOOLEAN : nodes = [m \in {<<>>} |-> NewNode(t, minmax_of[0])]
  /\ pc = "idle"
  /\ iterations = None
  /\ time_limit = None
  /\ iters = 0
  /\ elapsed = 0
  /\ ret = None
  /\ err = "none"
  /\ last_op = "none"
  /\ bp_calls = [m \in {<<>>} |-> 0]
  /\ at_call = NoCall
  /\ stage = <<0, 0>>
  /\ cycles = 0
  /\ expand_calls = [m \in {<<>>} |-> 0]
  /\ current_node = None
  /\ playout = None
  /\ select_call = NoSelect

\* search(iterations, time_limit) up to the start of the loop
SearchCall(its, tl) ==
  /\ pc = "idle"
  /\ iterations' = its
  /\ time_limit' = tl
  /\ iters' = 0
  /\ ret' = None
  /\ last_op' = "search"
  /\ at_call' = [visit |-> nodes[root].visit, fresh |-> Fresh(nodes, root),
                 is_terminal |-> nodes[root].is_terminal]
  /\ err' = ArgCheck(its, tl)
  /\ elapsed' = 0
  /\ pc' = IF ArgCheck(its, tl) # "none" THEN "idle" ELSE "loop"
  /\ UNCHANGED <<root, nodes, minmax_of, flag_last, current_node, playout, select_call,
                 expand_calls, bp_calls, cycles>>

\* one cycle of the loop: search_iter(curr)
SearchIter ==
  /\ pc = "loop"
  /\ ContinueLoop
  /\ LET leaf == Descend(nodes, root, nodes[root].visit)
         expanding == ShouldExpand(nodes, leaf)
     IN \E k \in (IF expanding THEN ExpandChoices(leaf) ELSE {0}),
           score \in Rewards :
          LET h1 == IF expanding
                    THEN ExpandNode(nodes, leaf, k, minmax_of, flag_last)
                    ELSE nodes
              curr == IF expanding THEN AfterExpand(h1, leaf) ELSE leaf
              c1 == [m \in DOMAIN h1 |->
                       IF m \in DOMAIN bp_calls THEN bp_calls[m] ELSE 0]
              st == Backpropagate([h |-> h1, c |-> c1], curr, score)
          IN /\ nodes' = st.h
             /\ bp_calls' = st.c
             /\ expand_calls' =
                  [m \in DOMAIN h1 |->
                     (IF m \in DOMAIN expand_calls THEN expand_calls[m] ELSE 0)
                       + (IF expanding /\ m = leaf THEN 1 ELSE 0)]
  /\ iters' = iters + 1
  /\ cycles' = cycles + 1
  /\ UNCHANGED <<root, minmax_of, flag_last, current_node, playout, select_call,
                 pc, iterations, time_limit, elapsed, ret,
                 err, last_op, at_call, stage>>

\* the loop is over: the best child by visit count, or the state error
SearchReturn ==
  /\ pc = "loop"
  /\ ~ContinueLoop
  /\ pc' = "idle"
  /\ IF Len(nodes[root].children) = 0
     THEN err' = ERR_NO_CHILDREN /\ ret' = None
     ELSE err' = "none" /\ ret' = Some(BestChild(nodes, root))
  /\ elapsed' = 0
  /\ UNCHANGED <<root, nodes, minmax_of, flag_last, current_node, playout, select_call,
                 expand_calls, iterations, time_limit, iters,
                 last_op, bp_calls, at_call, stage, cycles>>

\* variant of MoveTo: the parent back-reference is not cleared
MoveToKeepParent(node) ==
  /\ pc = "idle"
  /\ ret' = None
  /\ last_op' = "move_to"
  /\ IF node = None
     THEN /\ err' = ERR_TYPE
          /\ UNCHANGED <<root, nodes>>
     ELSE /\ err' = "none"
          /\ root' = Val(node)
          /\ UNCHANGED nodes
  /\ iterations' = None
  /\ time_limit' = None
  /\ iters' = 0
  /\ at_call' = NoCall
  /\ UNCHANGED <<minmax_of, flag_last, current_node, playout, select_call,
                 expand_calls, pc, elapsed, bp_calls, cycles>>

\* move_to(node)
MoveTo(node) ==
  /\ pc = "idle"
  /\ ret' = None
  /\ last_op' = "move_to"
  /\ IF node = None
     THEN /\ err' = ERR_TYPE
          /\ UNCHANGED <<root, nodes>>
     ELSE /\ err' = "none"
          /\ root' = Val(node)
          /\ nodes' = [nodes EXCEPT ![Val(node)].parent = None]
  /\ iterations' = None
  /\ time_limit' = None
  /\ iters' = 0
  /\ at_call' = NoCall
  /\ UNCHANGED <<minmax_of, flag_last, current_node, playout, select_call,
                 expand_calls, pc, elapsed, bp_calls, cycles>>

\* time passes while a time-limited search is within its budget
Tick ==
  /\ pc = "loop"
  /\ iterations = None
  /\ elapsed < Val(time_limit)
  /\ elapsed' = elapsed + 1
  /\ UNCHANGED <<root, nodes, minmax_of, flag_last, current_node, playout, select_call,
                 expand_calls, pc, iterations, time_limit, iters,
                 ret, err, last_op, bp_calls, at_call, stage, cycles>>

\* the argument pairs search is called with: neither bound, one bound
\* (negative, zero, positive), both bounds
SearchArgs ==
  {<<None, None>>, <<Some(1), Some(1)>>}
    \cup {<<Some(i), None>> : i \in (-1)..MaxIter}
    \cup {<<None, Some(t)>> : t \in {-1, 0, 1}}

\* the cycles a call may run fit the budget of the behaviour
WithinBudget(its) == Truthy(its) /\ Val(its) > 0 => cycles + Val(its) <= MaxCycles

\* move_to is called with a child of the root (as search returns) or None
MoveArgs == Optional(Range(nodes[root].children))

\* any sequence of API calls
Next ==
  \/ \E a \in SearchArgs :
       WithinBudget(a[1]) /\ SearchCall(a[1], a[2]) /\ UNCHANGED stage
  \/ SearchIter
  \/ SearchReturn
  \/ \E node \in MoveArgs : MoveTo(node) /\ UNCHANGED stage
  \/ Tick

Spec == Init /\ [][Next]_vars

\* the end-to-end scenario from a freshly constructed root:
\* best = search(iterations=n); move_to(best); search(iterations=n)
ScenarioSearch ==
  /\ stage[1] \in {0, 2}
  /\ \E n \in 2..ScenarioIter :
       /\ stage[1] = 2 => n = stage[2]
       /\ SearchCall(Some(n), None)
       /\ stage' = <<stage[1] + 1, n>>

ScenarioMove ==
  /\ stage[1] = 1
  /\ err = "none"
  /\ MoveTo(ret)
  /\ stage' = <<2, stage[2]>>

ScenarioNext ==
  \/ ScenarioSearch
  \/ SearchIter
  \/ SearchReturn
  \/ ScenarioMove

ScenarioSpec == Init /\ [][ScenarioNext]_vars

\* ---- a game session: TicTacToeGame.play with two engine players ----
\* while not current_node.is_terminal:
\*     current_node = tree.search(iterations=n); tree.move_to(current_node)
\* from a fresh root that is not flagged terminal
PlayInit == Init /\ ~nodes[root].is_terminal

\* ai_move: the next search of the loop, entered while the root is not
\* terminal; an exception of the previous search has ended the session
PlaySearch ==
  /\ stage[1] % 2 = 0
  /\ err = "none"
  /\ ~nodes[root].is_terminal
  /\ \E n \in 2..ScenarioIter :
       /\ stage[1] > 0 => n = stage[2]
       /\ SearchCall(Some(n), None)
       /\ stage' = <<stage[1] + 1, n>>

\* move_to(the node the search has returned)
PlayMove ==
  /\ stage[1] % 2 = 1
  /\ last_op = "search"
  /\ err = "none"
  /\ MoveTo(ret)
  /\ stage' = <<stage[1] + 1, stage[2]>>

PlayNext ==
  \/ PlaySearch
  \/ SearchIter
  \/ SearchReturn
  \/ PlayMove

\* weak fairness of SearchIter, written out with its enabling condition
\* (the loop condition) and its effect (one more cycle)
CycleFairness ==
  \/ []<>(~(pc = "loop" /\ ContinueLoop))
  \/ []<><<cycles' = cycles + 1>>_vars

\* the session is sequential code: whatever step is next is taken
PlaySpec ==
  /\ PlayInit
  /\ [][PlayNext]_vars
  /\ WF_vars(PlaySearch)
  /\ WF_vars(SearchReturn)
  /\ WF_vars(PlayMove)
  /\ CycleFairness

\* ---- select(N) on its own ----
\* a node with k children whose visit and score are vs[i] and ss[i]; the
\* node's visit is 1 plus its children's visits, as the search leaves it
SelectHeap(k, vs, ss) ==
  [m \in {<<>>} \cup {<<i>> : i \in 1..k} |->
     IF m = <<>>
     THEN [NewNode(FALSE, FALSE) EXCEPT
             !.children = [i \in 1..k |-> <<i>>],
             !.visit = 1 + SumVisits([j \in 1..k |-> [visit |-> vs[j]]],
                                     [j \in 1..k |-> j], 1)]
     ELSE [NewNode(FALSE, FALSE) EXCEPT
             !.visit = vs[m[1]], !.score = ss[m[1]], !.parent = Some(<<>>)]]

\* the node is the root of the search (N is its visit) or lies below the
\* root (N is larger)
SelectInit ==
  /\ root = <<>>
  /\ minmax_of = [p \in {0, 1} |-> FALSE]
  /\ flag_last = FALSE
  /\ \E k \in 1..SelectBranch :
       \E vs \in [1..k -> 0..SelectVisit] :
         \E ss \in [1..k -> (-SelectVisit)..SelectVisit] :
           /\ \A i \in 1..k : Abs(ss[i]) <= vs[i]
           /\ nodes = SelectHeap(k, vs, ss)
  /\ \E extra \in 0..1 : select_call = [N |-> nodes[root].visit + extra, ret |-> None]
  /\ pc = "idle"
  /\ iterations = None
  /\ time_limit = None
  /\ iters = 0
  /\ elapsed = 0
  /\ ret = None
  /\ err = "none"
  /\ last_op = "none"
  /\ bp_calls = [m \in DOMAIN nodes |-> nodes[m].visit]
  /\ at_call = NoCall
  /\ stage = <<0, 0>>
  /\ cycles = 0
  /\ expand_calls = [m \in DOMAIN nodes |-> IF m = <<>> THEN 1 ELSE 0]
  /\ current_node = None
  /\ playout = None

\* root.select(N)
SelectApply ==
  /\ select_call.ret = None
  /\ select_call' = [select_call EXCEPT !.ret = Some(Select(nodes, root, select_call.N))]
  /\ UNCHANGED <<root, nodes, minmax_of, flag_last, pc, iterations, time_limit,
                 iters, elapsed, ret, err, last_op, bp_calls, at_call, stage,
                 cycles, expand_calls, current_node, playout>>

SelectNext == SelectApply

SelectSpec == SelectInit /\ [][SelectNext]_vars

\* ---- the tic-tac-toe domain (TicTacToeNode, TicTacToeGame) ----
\* players: 0 is X, 1 is O; a cell is None or Some(player); board[3*i+j+1]
\* is board[i, j]
EmptyBoard == [c \in 1..9 |-> None]

\* the lines check_winner tests, in its order: rows, columns, diagonals
Lines ==
  <<<<1, 2, 3>>, <<4, 5, 6>>, <<7, 8, 9>>,
    <<1, 4, 7>>, <<2, 5, 8>>, <<3, 6, 9>>,
    <<1, 5, 9>>, <<3, 5, 7>>>>

\* check_winner: the owner of the first complete line, or None
check_winner(board) ==
  LET full == {k \in 1..Len(Lines) :
                 /\ board[Lines[k][1]] = board[Lines[k][2]]
                 /\ board[Lines[k][2]] = board[Lines[k][3]]
                 /\ board[Lines[k][3]] # None}
  IN IF full = {} THEN None
     ELSE board[Lines[CHOOSE k \in full : \A o \in full : k <= o][1]]

empty_positions(board) == {c \in 1..9 : board[c] = None}

\* TicTacToeNode(current_player, board): the first constructor argument is
\* passed on as MonteCarloTreeNode's minmax_search
TicTacToeNode(current_player, board) ==
  [minmax_search |-> current_player,
   board |-> board,
   current_player |-> current_player,
   winner |-> check_winner(board),
   is_terminal |-> check_winner(board) # None \/ empty_positions(board) = {}]

\* the end of simulate(): the reward from winner and the local current_player
SimulateResult(winner, current_player) ==
  IF winner = None THEN 0
  ELSE IF winner = Some(current_player) THEN 1
  ELSE -1

\* TicTacToeGame.reset(); the engine holds the same node as a fresh root
TicTacToeInit ==
  /\ current_node = TicTacToeNode(0, EmptyBoard)
  /\ playout = None
  /\ root = <<>>
  /\ minmax_of = [p \in {0, 1} |-> p # 0]
  /\ flag_last = TRUE
  /\ nodes = [m \in {<<>>} |-> NewNode(FALSE, minmax_of[0])]
  /\ pc = "idle"
  /\ iterations = None
  /\ time_limit = None
  /\ iters = 0
  /\ elapsed = 0
  /\ ret = None
  /\ err = "none"
  /\ last_op = "none"
  /\ bp_calls = [m \in {<<>>} |-> 0]
  /\ at_call = NoCall
  /\ stage = <<0, 0>>
  /\ cycles = 0
  /\ expand_calls = [m \in {<<>>} |-> 0]
  /\ select_call = NoSelect

engine_vars ==
  <<root, nodes, minmax_of, flag_last, pc, iterations, time_limit, iters,
    elapsed, ret, err, last_op, bp_calls, at_call, stage, cycles,
    expand_calls, select_call>>

\* a move in the game: the node for the position after the player to move
\* takes an empty cell, as expand() and human_move() construct it
GameMove ==
  /\ playout = None
  /\ ~current_node.is_terminal
  /\ \E c \in empty_positions(current_node.board) :
       current_node' =
         TicTacToeNode(1 - current_node.current_player,
                       [current_node.board EXCEPT
                          ![c] = Some(current_node.current_player)])
  /\ UNCHANGED <<playout, engine_vars>>

\* simulate() up to the playout loop
SimulateStart ==
  /\ playout = None
  /\ LET board == current_node.board
         winner == check_winner(board)
     IN playout' =
          IF winner = None /\ empty_positions(board) = {}
          THEN Some([pc |-> "return", board |-> board,
                     current_player |-> current_node.current_player,
                     winner |-> winner, ret |-> 0])
          ELSE Some([pc |-> "loop", board |-> board,
                     current_player |-> current_node.current_player,
                     winner |-> winner, ret |-> 0])
  /\ UNCHANGED <<current_node, engine_vars>>

\* one pass of the playout loop: a random move and the victory check, or
\* the break on a full board; the return statement follows a break
SimulateStep ==
  /\ playout # None
  /\ Val(playout).pc = "loop"
  /\ LET f == Val(playout)
     IN IF empty_positions(f.board) = {}
        THEN playout' =
               Some([f EXCEPT !.pc = "return",
                              !.ret = SimulateResult(f.winner, f.current_player)])
        ELSE \E c \in empty_positions(f.board) :
               LET board == [f.board EXCEPT ![c] = Some(f.current_player)]
                   current_player == 1 - f.current_player
                   winner == check_winner(board)
               IN playout' =
                    Some([pc |-> IF winner # None THEN "return" ELSE "loop",
                          board |-> board,
                          current_player |-> current_player,
                          winner |-> winner,
                          ret |-> IF winner # None
                                  THEN SimulateResult(winner, current_player)
                                  ELSE 0])
  /\ UNCHANGED <<current_node, engine_vars>>

\* simulate() has returned playout.ret
SimulateReturn ==
  /\ playout # None
  /\ Val(playout).pc = "return"
  /\ playout' = None
  /\ UNCHANGED <<current_node, engine_vars>>

TicTacToeNext ==
  \/ GameMove
  \/ SimulateStart
  \/ SimulateStep
  \/ SimulateReturn

TicTacToeSpec == TicTacToeInit /\ [][TicTacToeNext]_vars

TypeOK ==
  /\ root \in DOMAIN nodes
  /\ pc \in {"idle", "loop"}
  /\ DOMAIN bp_calls = DOMAIN nodes
  /\ DOMAIN expand_calls = DOMAIN nodes

\* ---- vocabulary of the properties ----
Children(h, n) == Range(h[n].children)

\* the nodes reachable from n through children and parent references
RECURSIVE Closure(_, _)
Closure(h, S) ==
  LET T == S \cup UNION {Children(h, m) \cup h[m].parent : m \in S}
  IN IF T = S THEN S ELSE Closure(h, T)

Reachable(h, n) == Closure(h, {n})

\* the last call was search with exactly one bound
OnlyIterations == last_op = "search" /\ iterations # None /\ time_limit = None
OnlyTimeLimit == last_op = "search" /\ iterations = None /\ time_limit # None
\* ... and it has returned or raised
Returned == pc = "idle" /\ last_op = "search"

\* ---- C1 ----
\* C1 (as claimed): a search whose single bound is not positive
\* (iterations <= 0 or time_limit <= 0, zero included) raises an argument
\* error and never enters the loop or the best-child selection.
C1_NonPositiveBoundRaises ==
  (\/ OnlyIterations /\ Val(iterations) <= 0
   \/ OnlyTimeLimit /\ Val(time_limit) <= 0)
    => pc = "idle" /\ err \in ArgumentErrors

\* ---- C2 ----
\* C2 (as claimed): a search with time_limit t > 0 runs at least one cycle,
\* so root.visit has increased when it ends.
C2_TimedSearchRunsACycle ==
  (Returned /\ OnlyTimeLimit /\ Val(time_limit) > 0)
    => iters >= 1 /\ nodes[root].visit > at_call.visit

\* ---- C3 ----
\* C3: a search called with both bounds or with neither raises the argument
\* error at once: no cycle is run and no node changes.
C3_BothOrNeitherRaises ==
  [][(pc = "idle" /\ last_op' = "search"
        /\ (iterations' = None <=> time_limit' = None))
       => /\ pc' = "idle"
          /\ err' = (IF iterations' = None THEN ERR_NEITHER ELSE ERR_BOTH)
          /\ nodes' = nodes
          /\ root' = root
          /\ cycles' = cycles]_vars

C3_Witness ==
  /\ Returned
  /\ err = ERR_BOTH
  /\ nodes[root].visit > 0

\* ---- C4 ----
InScenario == Returned /\ stage[1] \in {1, 3}

ReturnsVisitedChild ==
  /\ err = "none"
  /\ ret # None
  /\ Val(ret) \in Children(nodes, root)
  /\ nodes[Val(ret)].visit >= 1

\* C4 (as claimed): search(iterations=n), move_to(returned child),
\* search(iterations=n) from a fresh root, n >= 2, raise nothing and each
\* search returns a child of the then-current root with visit >= 1.
C4_ScenarioNeverRaises == InScenario => ReturnsVisitedChild

\* C4 (amended): in that scenario no search raises an argument error; a
\* search returns a child of the then-current root with visit >= 1 unless
\* that root is a terminal position (flagged at construction, or found
\* without successors on expansion), and then it raises the state error.
C4_ScenarioUnlessTerminal ==
  InScenario =>
    IF nodes[root].is_terminal THEN err = ERR_NO_CHILDREN
    ELSE ReturnsVisitedChild

C4_Witness ==
  /\ InScenario
  /\ stage[1] = 3
  /\ ReturnsVisitedChild

\* ---- C5 ----
\* C5: search(iterations=n), n >= 1, on a root that is terminal: the root is
\* never expanded, every cycle changes only the root's own visit and score,
\* and the call ends after n cycles in the "no children" state error.
C5_TerminalRootStateError ==
  [][(OnlyIterations' /\ Val(iterations') >= 1 /\ at_call'.is_terminal)
       => /\ DOMAIN nodes' = DOMAIN nodes
          /\ \A m \in DOMAIN nodes \ {root} : nodes'[m] = nodes[m]
          /\ nodes'[root].children = <<>>
          /\ nodes'[root].is_terminal
          /\ nodes'[root].parent = nodes[root].parent
          /\ nodes'[root].visit = at_call'.visit + iters'
          /\ pc' = "idle" => /\ err' = ERR_NO_CHILDREN
                             /\ iters' = Val(iterations')]_vars

C5_Witness ==
  /\ Returned
  /\ at_call.is_terminal
  /\ at_call.fresh
  /\ iterations = Some(2)
  /\ nodes[root].visit = 2
  /\ err = ERR_NO_CHILDREN

\* ---- C6 ----
\* C6: search(iterations=1) on a fresh root never expands it: the root has
\* no children, root.visit is 1 afterwards and the call ends in the state
\* error.
C6_OneIterationNeverExpands ==
  (OnlyIterations /\ iterations = Some(1) /\ at_call.fresh)
    => /\ nodes[root].children = <<>>
       /\ nodes[root].visit = iters
       /\ pc = "idle" => nodes[root].visit = 1 /\ err = ERR_NO_CHILDREN

C6_Witness ==
  /\ Returned
  /\ iterations = Some(1)
  /\ at_call.fresh
  /\ ~nodes[root].is_terminal
  /\ nodes[root].visit = 1

C8_MoveToKeepsSubtree ==
  [][\A node \in MoveArgs :
       (MoveTo(node) /\ node # None) =>
         LET child == Val(node) IN
           /\ root' = child
           /\ nodes'[child].parent = None
           /\ \A m \in Subtree(nodes, child) :
                /\ nodes'[m].visit = nodes[m].visit
                /\ nodes'[m].score = nodes[m].score
                /\ nodes'[m].children = nodes[m].children
                /\ nodes'[m].is_terminal = nodes[m].is_terminal
           /\ Reachable(nodes', root') = Subtree(nodes, child)]_vars

C8_Witness ==
  /\ last_op = "move_to"
  /\ err = "none"
  /\ root # <<>>
  /\ nodes[root].visit >= 1
  /\ \E m \in DOMAIN nodes \ Subtree(nodes, root) :
       m # <<>> /\ nodes[m].visit >= 1

\* ---- C9 ----
\* C9: with every simulate() result in [-1, 1], every node has
\* |score| <= visit in every reachable state.
C9_ScoreBoundedByVisit ==
  \A m \in DOMAIN nodes : Abs(nodes[m].score) <= nodes[m].visit

C9_Witness ==
  \E m \in DOMAIN nodes, k \in DOMAIN nodes :
    /\ nodes[m].visit >= 3
    /\ nodes[m].score = -nodes[m].visit
    /\ nodes[k].parent = Some(m)
    /\ nodes[k].score = nodes[k].visit
    /\ root # <<>>

\* ---- C10 ----
\* C10: visit of every node is the number of backpropagate invocations on
\* it, and search(iterations=n), n >= 1, has increased the root's visit by
\* exactly n when it returns or fails with the state error.
C10_VisitCountsBackpropagations ==
  /\ \A m \in DOMAIN nodes : nodes[m].visit = bp_calls[m]
  /\ (OnlyIterations /\ Val(iterations) >= 1) =>
       /\ nodes[root].visit = at_call.visit + iters
       /\ pc = "idle" => iters = Val(iterations)

C10_Witness ==
  /\ Returned
  /\ iterations = Some(2)
  /\ err = "none"
  /\ at_call.visit >= 1
  /\ nodes[root].visit = at_call.visit + 2
  /\ bp_calls[root] = nodes[root].visit

\* ---- one search cycle seen as a step ----
\* the step is one cycle of the search loop
IsCycle == cycles' = cycles + 1
\* visit and score before the step (0 for a node the step creates)
OldVisit(m) == IF m \in DOMAIN nodes THEN nodes[m].visit ELSE 0
OldScore(m) == IF m \in DOMAIN nodes THEN nodes[m].score ELSE 0
\* the nodes whose visit the step changes
Touched == {m \in DOMAIN nodes' : nodes'[m].visit # OldVisit(m)}
\* the node the cycle simulates: backpropagation starts there, so it is the
\* deepest node whose visit changes
Simulated == CHOOSE m \in Touched : \A o \in Touched : Len(o) <= Len(m)
\* n and its ancestors along the parent references
RECURSIVE ParentChain(_, _)
ParentChain(h, n) ==
  {n} \cup (IF h[n].parent = None THEN {} ELSE ParentChain(h, Val(h[n].parent)))
Sign(d) == IF d % 2 = 0 THEN 1 ELSE -1

\* ---- C11 ----
\* C11 (as claimed): simulate() of a tic-tac-toe node returns the reward
\* from the view of the node's current_player: +1 when that player wins the
\* random playout, -1 when the opponent wins, 0 on a draw.
C11_RewardForNodesPlayer ==
  (playout # None /\ Val(playout).pc = "return") =>
    LET winner == check_winner(Val(playout).board)
    IN Val(playout).ret =
         (IF winner = None THEN 0
          ELSE IF winner = Some(current_node.current_player) THEN 1
          ELSE -1)

\* ---- C12 ----
\* C12: backpropagate(result) on a node adds the signed reward to every node
\* of its parent chain up to the root; the sign flips once for every node
\* below the receiver whose own minmax_search is true. With all flags true
\* the ancestor at distance d receives result * (-1)^d, with all flags
\* false every ancestor receives result unchanged.
C12_SignedRewardAlongChain ==
  [][IsCycle =>
       LET sim == Simulated
           result == nodes'[sim].score - OldScore(sim)
           chain == ParentChain(nodes', sim)
       IN /\ root \in chain
          /\ \A m \in chain :
               LET d == Len(sim) - Len(m)
                   below == {o \in chain : Len(o) > Len(m)}
                   flips == Cardinality({o \in below : nodes'[o].minmax_search})
                   got == nodes'[m].score - OldScore(m)
               IN /\ got = result * Sign(flips)
                  /\ (\A o \in below : nodes'[o].minmax_search)
                       => got = result * Sign(d)
                  /\ (\A o \in below : ~nodes'[o].minmax_search)
                       => got = result]_vars

C12_Witness ==
  /\ root = <<>>
  /\ minmax_of[0] /\ minmax_of[1]
  /\ <<1, 1>> \in DOMAIN nodes
  /\ nodes[<<1, 1>>].visit = 1
  /\ nodes[<<1, 1>>].score = 1
  /\ nodes[<<1>>].visit = 2
  /\ nodes[<<1>>].score = -2
  /\ nodes[<<>>].visit = 3
  /\ nodes[<<>>].score = 3

\* ---- C13 ----
\* the leaf the descent of the cycle ends at
Leaf == Descend(nodes, root, nodes[root].visit)
\* the nodes whose children or is_terminal the step changes
Grown ==
  {m \in DOMAIN nodes : \/ nodes'[m].children # nodes[m].children
                        \/ nodes'[m].is_terminal # nodes[m].is_terminal}

\* C13: in one search cycle the leaf reached by the descent is expanded only
\* if it is not terminal and its visit is not 0. If the expansion yields
\* children, the first child is the node simulated and backpropagated and
\* the other new children keep visit 0. If the leaf has visit 0 or is
\* terminal, the leaf itself is simulated and no node is expanded.
C13_ExpandThenSimulateFirstChild ==
  [][IsCycle =>
       LET leaf == Leaf
           kids == nodes'[leaf].children
       IN /\ Grown \subseteq {leaf}
          /\ Grown # {} => ~nodes[leaf].is_terminal /\ nodes[leaf].visit # 0
          /\ IF kids # <<>>
             THEN /\ Simulated = kids[1]
                  /\ nodes'[kids[1]].visit = 1
                  /\ \A i \in 2..Len(kids) : nodes'[kids[i]].visit = 0
                  /\ DOMAIN nodes' \ DOMAIN nodes = Range(kids)
             ELSE /\ Simulated = leaf
                  /\ DOMAIN nodes' = DOMAIN nodes
          /\ (nodes[leaf].visit = 0 \/ nodes[leaf].is_terminal)
               => /\ Simulated = leaf
                  /\ nodes'[leaf].visit = nodes[leaf].visit + 1
                  /\ Grown = {}
                  /\ DOMAIN nodes' = DOMAIN nodes]_vars

C13_Witness ==
  /\ root = <<>>
  /\ Len(nodes[<<>>].children) = 2
  /\ nodes[<<>>].visit = 2
  /\ nodes[<<1>>].visit = 1
  /\ nodes[<<2>>].visit = 0

\* ---- C14 ----
\* C14: expand_node is invoked at most once on each node and never on a
\* terminal node; once a node's children are non-empty they are never
\* replaced, reordered or shortened.
C14_ExpandOncePerNode ==
  [][\A m \in DOMAIN nodes :
       /\ expand_calls'[m] # expand_calls[m]
            => /\ expand_calls[m] = 0
               /\ expand_calls'[m] = 1
               /\ ~nodes[m].is_terminal
               /\ nodes[m].children = <<>>
       /\ nodes[m].children # <<>>
            => nodes'[m].children = nodes[m].children]_vars

C14_Witness ==
  /\ expand_calls[root] = 1
  /\ Len(nodes[root].children) = 2
  /\ nodes[root].children = <<<<1>>, <<2>>>>
  /\ nodes[root].visit = 3
  /\ nodes[<<2>>].visit = 1

\* ---- C15 ----
\* C15: select(N) on a node with non-empty children returns the first child
\* in list order whose visit is 0 if there is one; otherwise a child whose
\* ucb1(N) is maximal among the children, the earliest such child.
C15_SelectFirstUnvisitedElseMaxUcb1 ==
  select_call.ret # None =>
    LET cs == nodes[root].children
        N == select_call.N
        u(i) == Ucb1(nodes, cs[i], N)
        unvisited == {i \in 1..Len(cs) : nodes[cs[i]].visit = 0}
    IN \E i \in 1..Len(cs) :
         /\ cs[i] = Val(select_call.ret)
         /\ IF unvisited # {}
            THEN i \in unvisited /\ \A j \in unvisited : i <= j
            ELSE \A j \in 1..Len(cs) :
                   /\ ~Greater(u(j), u(i))
                   /\ j < i => Greater(u(i), u(j))

\* no child is unvisited, the first two tie for the maximum
C15_Witness ==
  /\ select_call.ret = Some(<<1>>)
  /\ Len(nodes[root].children) = 3
  /\ \A m \in Children(nodes, root) : nodes[m].visit > 0
  /\ nodes[<<1>>].visit = nodes[<<2>>].visit
  /\ nodes[<<1>>].score = nodes[<<2>>].score
  /\ Greater(Ucb1(nodes, <<1>>, select_call.N), Ucb1(nodes, <<3>>, select_call.N))
  /\ nodes[<<3>>].score > nodes[<<1>>].score

\* ---- C16 ----
\* C16: simulate() is only ever called on a node that has no children at
\* the moment of the call.
C16_SimulateOnChildlessNode ==
  [][IsCycle => /\ Touched # {}
                /\ nodes'[Simulated].children = <<>>
                /\ Simulated \in DOMAIN nodes
                     => nodes[Simulated].children = <<>>]_vars

C16_Witness ==
  /\ root = <<>>
  /\ nodes[<<>>].children = <<<<1>>>>
  /\ nodes[<<>>].visit = 2
  /\ nodes[<<1>>].visit = 1
  /\ nodes[<<1>>].children = <<>>

\* ---- C17 ----
\* C17 (as claimed): a session of search(iterations=n), n >= 2, followed by
\* move_to on the returned child, repeated from a fresh non-terminal root
\* while the root is not terminal: no call raises an argument or state
\* error, and the root eventually is a terminal node.
C17_SessionNeverRaises ==
  /\ [](err = "none")
  /\ <>(nodes[root].is_terminal)

\* C17 (amended): in such a session no call raises an argument or type
\* error; a search raises the state error only when the root it was called
\* on has been expanded in that search and found without successors, a
\* terminal position the constructor did not flag; at most MaxDepth moves
\* are made, and the root eventually is a terminal node.
C17_SessionReachesTerminal ==
  /\ [](/\ err \in {"none", ERR_NO_CHILDREN}
        /\ err = ERR_NO_CHILDREN
             => /\ nodes[root].is_terminal
                /\ nodes[root].children = <<>>
                /\ expand_calls[root] = 1
        /\ stage[1] <= 2 * MaxDepth + 1)
  /\ <>(nodes[root].is_terminal)

\* two moves made without an exception, onto a position flagged terminal
C17_Witness ==
  /\ stage[1] = 4
  /\ last_op = "move_to"
  /\ err = "none"
  /\ nodes[root].is_terminal
  /\ expand_calls[root] = 0
  /\ Len(root) = 2

\* ---- C18 ----
\* C18 (as claimed): every tic-tac-toe node the demo game creates carries a
\* true minmax_search flag, so that the backpropagated reward flips sign at
\* every ply.
C18_EveryNodeFlips == current_node.minmax_search # 0

\* ---- C19 ----
\* C19 (as claimed): every node with non-empty children has visit equal to
\* 1 plus the sum of its children's visits; so a node with children has
\* visit >= 1 and root.visit is >= 1 whenever a selection is made among the
\* root's children.
C19_VisitIsOnePlusChildren ==
  \A m \in DOMAIN nodes :
    nodes[m].children # <<>>
      => /\ nodes[m].visit = 1 + SumVisits(nodes, nodes[m].children, 1)
         /\ nodes[m].visit >= 1

\* C19 (amended): the same for every node of the current tree, the subtree
\* of the current root; a former ancestor left behind by move_to keeps its
\* old visit while its child, the new root, goes on being visited.
C19_VisitIsOnePlusChildrenInTree ==
  \A m \in Subtree(nodes, root) :
    nodes[m].children # <<>>
      => /\ nodes[m].visit = 1 + SumVisits(nodes, nodes[m].children, 1)
         /\ nodes[m].visit >= 1

C19_Witness ==
  /\ root = <<>>
  /\ Len(nodes[<<>>].children) = 2
  /\ nodes[<<1>>].visit = 1
  /\ nodes[<<2>>].visit = 1
  /\ nodes[<<>>].visit = 3
  /\ pc = "loop"

\* ---- C20 ----
\* C20: one search cycle changes visit and score only on the parent chain
\* from the simulated node up to the current root (each visit by exactly
\* 1) and changes children and is_terminal only on the one leaf it expands;
\* all other nodes are unchanged. After move_to(child) no cycle modifies a
\* node outside the subtree of child, the current root.
C20_CycleFrame ==
  [][IsCycle =>
       LET chain == ParentChain(nodes', Simulated)
           fresh == DOMAIN nodes' \ DOMAIN nodes
       IN /\ root \in chain
          /\ nodes'[root].parent = None
          /\ \A m \in chain : nodes'[m].visit = OldVisit(m) + 1
          /\ \A m \in DOMAIN nodes \ chain :
               nodes'[m].visit = nodes[m].visit /\ nodes'[m].score = nodes[m].score
          /\ \A m \in fresh \ chain : nodes'[m].visit = 0 /\ nodes'[m].score = 0
          /\ Grown \subseteq {Leaf}
          /\ fresh \subseteq Children(nodes', Leaf)
          /\ \A m \in DOMAIN nodes : nodes'[m].parent = nodes[m].parent
          /\ \A m \in DOMAIN nodes \ Subtree(nodes, root) : nodes'[m] = nodes[m]]_vars

C20_Witness ==
  /\ root = <<1>>
  /\ last_op = "search"
  /\ nodes[<<1>>].visit = 2
  /\ nodes[<<>>].visit = 2
  /\ cycles = 3

====
